---- MODULE Spec2Model ----
(***************************************************************************)
(* A model of the OpenRecord front end: the zustand Review Store           *)
(* (store/useStore.ts), the review page with its useDocumentAnalysis hook  *)
(* (pages/DocumentReview.tsx), the upload page (pages/DocumentUpload.tsx),  *)
(* the dashboard's delete button (pages/Dashboard.tsx) and the single-page  *)
(* viewer of App.tsx: its page caches and its text highlighter             *)
(* renderTextWithHighlights.                                               *)
(*                                                                         *)
(* JavaScript objects are records; a field an object does not carry is a   *)
(* field missing from the record's DOMAIN.  Numbers with a fraction are    *)
(* kept in hundredths (0.9 is 90, 0.05 is 5).                              *)
(***************************************************************************)
EXTENDS Integers, Sequences, FiniteSets, Bags, TLC

VARIABLES
    \* the Review Store (useStore.ts, AppState)
    currentDocument, currentAnalysis, documents, analyses, redactionConfig,
    \* the router and the mounted DocumentReview instance
    page, documentId, isAnalyzingRef, isAnalyzing, hasStartedAnalysis,
    \* the mounted DocumentUpload instance
    uploadedFiles,
    \* analyze requests the engine has not answered yet
    inflight,
    \* the operation the last step performed, and how it ended for its caller
    lastOp,
    \* renderTextWithHighlights: its inputs and the segments it built
    pageText, analysisRedactions, currentPage, segments, rendered,
    \* apply-redaction requests the service has not answered yet, and the
    \* names of the files the browser was made to download
    applying, downloads,
    \* the dashboard: delete requests the service has not answered yet
    deleting,
    \* the single-page viewer (App.tsx, RedactionService): the file chosen,
    \* uploads not answered yet, its `analysis`, the view mode, the per-page
    \* caches of page text (`pageText` there) and page images, and page
    \* fetches not answered yet
    selectedFile, uploading, appAnalysis, viewMode, pageTexts, pageImages, fetching

storeVars == <<currentDocument, currentAnalysis, documents, analyses, redactionConfig>>
pageVars  == <<page, documentId, isAnalyzingRef, isAnalyzing, hasStartedAnalysis, uploadedFiles>>
segVars   == <<pageText, analysisRedactions, currentPage, segments, rendered>>
applyVars == <<applying, downloads>>
dashVars  == <<deleting>>
cacheVars == <<selectedFile, uploading, appAnalysis, viewMode, pageTexts, pageImages, fetching>>
vars      == <<storeVars, pageVars, inflight, lastOp, segVars, applyVars, dashVars, cacheVars>>

-----------------------------------------------------------------------------
(* Bounds of the model *)

MaxInFlight == 2        \* analyze requests in flight at once
MaxDetections == 1      \* detections in one engine response
MaxDocuments == 3       \* length of the Store's documents array
MaxText == 3            \* characters of a page's text
MaxRedactions == 2      \* redactions of a legacy analysis
MaxApplying == 1        \* apply-redaction requests in flight at once
MaxFetching == 1        \* page fetches of the single-page viewer in flight at once

-----------------------------------------------------------------------------
(* Values *)

null == [null |-> TRUE]                 \* JavaScript null / undefined

DocIds == {"doc_1", "doc_2"}
Filenames == {"report.pdf", "memo.pdf"}
Documents == [id : DocIds, filename : Filenames]

\* POST /documents/upload answers with {document_id, filename, ...}
UploadAnswers == {[id |-> "doc_1", filename |-> "report.pdf"],
                  [id |-> "doc_2", filename |-> "memo.pdf"]}

AnalysisIds == {"an_1", "an_2"}
EngineDetectionIds == {"d1"}

\* Date.now() and the Math.random() stream, as the environment supplies them
Times == {1000}
Seeds == {"k3"}

\* A detection as the engine sends it: the id is optional
RawDetections ==
    LET base == [text |-> "SSN"]
    IN  {base} \cup {[id |-> i] @@ base : i \in EngineDetectionIds}

SeqsUpTo(S, n) == UNION {[1..k -> S] : k \in 0..n}

\* POST /documents/{id}/analyze answers with an Analysis
EngineResponses(docId, lists) ==
    {[id |-> a, document_id |-> docId, total_detections |-> Len(ds), detections |-> ds] :
        a \in AnalysisIds, ds \in lists}

\* The detection lists the pages' specifications draw from: the engine found
\* nothing, or one detection it gave no id and no approval and one it
\* gave both
NoneFound == <<>>
TwoFound == <<[text |-> "SSN"], [text |-> "John Smith", id |-> "d1", approved |-> FALSE]>>

Has(o, f) == f \in DOMAIN o
IdOf(o) == IF o # null /\ Has(o, "id") THEN o.id ELSE ""

-----------------------------------------------------------------------------
(* The Review Store's actions, as functions of the state they replace *)

\* documents.findIndex(d => d.id === id): 0 when none (JavaScript's -1)
FindIndex(seq, id) ==
    LET hits == {i \in 1..Len(seq) : IdOf(seq[i]) = id}
    IN  IF hits = {} THEN 0 ELSE CHOOSE i \in hits : \A j \in hits : i <= j

\* documents.find(d => d.id === id)
Find(seq, id) == IF FindIndex(seq, id) = 0 THEN null ELSE seq[FindIndex(seq, id)]

\* an addDocument that pushes without looking for the id
AlwaysPush(docs, document) == Append(docs, document)

addDocument(docs, document) ==
    LET existingIndex == FindIndex(docs, document.id)
    IN  IF existingIndex >= 1
        THEN [docs EXCEPT ![existingIndex] = document]
        ELSE Append(docs, document)

\* state.analyses[a.id] = a: an object keeps its keys in insertion order
PutAnalysis(as, a) ==
    LET k == FindIndex(as, a.id)
    IN  IF k >= 1 THEN [as EXCEPT ![k] = a] ELSE Append(as, a)

\* `det_${Date.now()}_${Math.random().toString(36).substr(2, 9)}`, for the
\* i-th detection of one call (successive draws of Math.random differ)
StoreDetectionId(now, seed, i) == "det_" \o ToString(now) \o "_" \o seed \o ToString(i)

addAnalysis(as, analysis, now, seed) ==
    LET detectionsWithIds ==
            [i \in 1..Len(analysis.detections) |->
                [id |-> StoreDetectionId(now, seed, i)] @@ analysis.detections[i]]
    IN  PutAnalysis(as, [detections |-> detectionsWithIds] @@ analysis)

\* currentAnalysis.detections.findIndex(d => d.id === detectionId); the id ""
\* stands for undefined, the id of a detection that carries none
DetectionIndex(analysis, detectionId) ==
    IF analysis = null THEN 0 ELSE FindIndex(analysis.detections, detectionId)

\* an update that replaces the detection by the fields given
ReplacedByUpdates(analysis, detectionId, updates) ==
    LET detectionIndex == DetectionIndex(analysis, detectionId)
    IN  IF detectionIndex >= 1
        THEN [analysis EXCEPT !.detections[detectionIndex] = updates]
        ELSE analysis

\* updateDetection, what it leaves in currentAnalysis:
\* Object.assign(currentAnalysis.detections[detectionIndex], updates)
updateDetection(analysis, detectionId, updates) ==
    LET detectionIndex == DetectionIndex(analysis, detectionId)
    IN  IF detectionIndex >= 1
        THEN [analysis EXCEPT !.detections[detectionIndex] = updates @@ @]
        ELSE analysis

\* a store of the current analysis that does not wait for the id to be found
StoredWhenCurrent(as, analysis, detectionId, updates) ==
    IF analysis # null
    THEN PutAnalysis(as, updateDetection(analysis, detectionId, updates))
    ELSE as

\* updateDetection, what it leaves in analyses:
\* state.analyses[currentAnalysis.id] = currentAnalysis, once the id is found
updateDetectionStored(as, analysis, detectionId, updates) ==
    IF DetectionIndex(analysis, detectionId) >= 1
    THEN PutAnalysis(as, updateDetection(analysis, detectionId, updates))
    ELSE as

\* currentAnalysis.detections.forEach(detection => { detection.approved = true })
approveAllDetections(analysis) ==
    IF analysis = null THEN analysis
    ELSE [analysis EXCEPT !.detections =
            [i \in 1..Len(analysis.detections) |-> [approved |-> TRUE] @@ analysis.detections[i]]]

\* a rejectAllDetections copied from approveAllDetections with the value left as it was
RejectWritesTrue(analysis) == approveAllDetections(analysis)

\* currentAnalysis.detections.forEach(detection => { detection.approved = false })
rejectAllDetections(analysis) ==
    IF analysis = null THEN analysis
    ELSE [analysis EXCEPT !.detections =
            [i \in 1..Len(analysis.detections) |-> [approved |-> FALSE] @@ analysis.detections[i]]]

\* updateRedactionConfig(config): Object.assign(state.redactionConfig, config)
updateRedactionConfig(current, config) == config @@ current

\* state.analyses[state.currentAnalysis.id] = state.currentAnalysis
StoreCurrent(as, analysis) == IF analysis = null THEN as ELSE PutAnalysis(as, analysis)

\* Object.values(analyses).find(a => a.document_id === documentId)
ExistingAnalysis(as, docId) ==
    LET hits == {i \in 1..Len(as) : as[i].document_id = docId}
    IN  IF hits = {} THEN null ELSE as[CHOOSE i \in hits : \A j \in hits : i <= j]

-----------------------------------------------------------------------------
(* useDocumentAnalysis *)

\* the module-level defaultRedactionConfig of DocumentReview.tsx
ReviewConfig == [document_type |-> "general", confidence_threshold |-> 5]

\* the defaultRedactionConfig of useStore.ts
StoreConfig == [document_type |-> "general", confidence_threshold |-> 10]
Thresholds == {10, 50}

\* d.id || `detection-${index}-${Date.now()}` (index counts from 0)
FormatId(d, index, now) ==
    IF Has(d, "id") /\ d.id # "" THEN d.id
    ELSE "detection-" \o ToString(index) \o "-" \o ToString(now)

\* d.x || dflt for a number
OrNumber(d, f, dflt) == IF Has(d, f) /\ d[f] # 0 THEN d[f] ELSE dflt

\* d.x || dflt for a string
OrString(d, f, dflt) == IF Has(d, f) /\ d[f] # "" THEN d[f] ELSE dflt

FormatDetection(d, index, now) ==
    [id |-> FormatId(d, index, now),
     approved |-> ~(Has(d, "approved") /\ d.approved = FALSE),
     detection_reason |-> OrString(d, "detection_reason", "Automatically detected"),
     page_number |-> OrNumber(d, "page_number", 0),
     start_pos |-> OrNumber(d, "start_pos", 0),
     end_pos |-> OrNumber(d, "end_pos", 0),
     confidence |-> OrNumber(d, "confidence", 90)] @@ d

FormattedResult(result, now) ==
    [detections |-> [i \in 1..Len(result.detections) |->
                        FormatDetection(result.detections[i], i - 1, now)]] @@ result

\* a startAnalysis that never looks at the guard
GuardIgnored == FALSE

\* if (isAnalyzingRef.current) return null
GuardSet == isAnalyzingRef

\* a startAnalysis that clears the guard on its success path only
ClearedOnSuccessOnly(orphan, ok) == IF orphan THEN isAnalyzingRef ELSE ~ok

\* finally { isAnalyzingRef.current = false }: the ref of the instance that
\* sent the request; an unmounted instance's ref is no longer the page's
FinallyGuard(orphan, ok) == IF orphan THEN isAnalyzingRef ELSE FALSE

\* a catch block that swallows the error: the caller gets undefined
Swallowed == "null"

\* catch (error) { ...; throw error }
CatchOutcome == "thrown"

Request(origin, docId, config, viaEffect) ==
    [origin |-> origin, docId |-> docId, config |-> config,
     viaEffect |-> viaEffect, orphan |-> FALSE]

\* What the last step did: an analysis operation and how its call of the
\* engine stands ("pending": suspended at its await; "null": startAnalysis
\* returned null at once), or "other"
Op(name, outcome) == [op |-> name, outcome |-> outcome]
Other == Op("other", "none")

-----------------------------------------------------------------------------
(* Initial state: the store as created, the router on the dashboard *)

ApplyIdle ==
    /\ applying = EmptyBag
    /\ downloads = {}

\* the dashboard with no delete requested
DashIdle == deleting = {}

\* no file chosen (selectedFile is null); a chosen file is known by its name
NoFile == ""

\* RedactionService as mounted: its useState initial values
CacheIdle ==
    /\ selectedFile = NoFile
    /\ uploading = {}
    /\ appAnalysis = null
    /\ viewMode = "preview"
    /\ pageTexts = <<>>
    /\ pageImages = <<>>
    /\ fetching = {}

SegIdle ==
    /\ pageText = <<>>
    /\ analysisRedactions = <<>>
    /\ currentPage = 0
    /\ segments = <<>>
    /\ rendered = FALSE

Init ==
    /\ currentDocument = null
    /\ currentAnalysis = null
    /\ documents = <<>>
    /\ analyses = <<>>
    /\ redactionConfig = StoreConfig
    /\ page = "dashboard"
    /\ documentId = ""
    /\ isAnalyzingRef = FALSE
    /\ isAnalyzing = FALSE
    /\ hasStartedAnalysis = FALSE
    /\ uploadedFiles = {}
    /\ inflight = EmptyBag
    /\ lastOp = Other
    /\ SegIdle
    /\ ApplyIdle
    /\ DashIdle
    /\ CacheIdle

-----------------------------------------------------------------------------
(* Routing (the Routes of the app; the links of the dashboard and layout) *)

\* The requests in flight once the page that sent those of `origin` is gone
Orphan(r, origin) == IF r.origin = origin THEN [r EXCEPT !.orphan = TRUE] ELSE r
Orphaned(origin) ==
    LET now == {Orphan(r, origin) : r \in BagToSet(inflight)}
    IN  [t \in now |->
            CopiesIn(t, inflight) +
            (IF t.origin = origin THEN CopiesIn([t EXCEPT !.orphan = FALSE], inflight) ELSE 0)]

\* <Link to={`/documents/${document.id}/review`}> of the dashboard, which
\* lists the server's documents: a DocumentReview instance is mounted, with
\* refs of its own.
NavigateReview(d) ==
    /\ page = "dashboard"
    /\ page' = "review"
    /\ documentId' = d
    /\ isAnalyzingRef' = FALSE
    /\ isAnalyzing' = FALSE
    /\ hasStartedAnalysis' = FALSE
    /\ lastOp' = Other
    /\ UNCHANGED <<storeVars, uploadedFiles, inflight, segVars, applyVars,
                   dashVars, cacheVars>>

\* The layout's links to "/" and "/upload": the page mounted before is
\* unmounted, and requests it sent outlive it.
NavigateTo(p) ==
    /\ p \in {"dashboard", "upload"}
    /\ page # p
    /\ page' = p
    /\ documentId' = ""
    /\ inflight' = Orphaned(IF page = "review" THEN "review" ELSE "upload")
    /\ isAnalyzingRef' = FALSE
    /\ isAnalyzing' = FALSE
    /\ hasStartedAnalysis' = FALSE
    /\ uploadedFiles' = {}
    /\ lastOp' = Other
    /\ UNCHANGED <<storeVars, segVars, applyVars,
                   dashVars, cacheVars>>

\* A render of DocumentReview reads isAnalyzingRef.current into isAnalyzing
Render ==
    /\ page = "review"
    /\ isAnalyzing # isAnalyzingRef
    /\ isAnalyzing' = isAnalyzingRef
    /\ lastOp' = Other
    /\ UNCHANGED <<storeVars, page, documentId, isAnalyzingRef, hasStartedAnalysis,
                   uploadedFiles, inflight, segVars, applyVars,
                   dashVars, cacheVars>>

-----------------------------------------------------------------------------
(* The upload page *)

\* onDrop, for one accepted file whose upload succeeded: addDocument
UploadDocument(document) ==
    /\ page = "upload"
    /\ Len(documents) < MaxDocuments
    /\ documents' = addDocument(documents, document)
    /\ uploadedFiles' = uploadedFiles \cup {document.id}
    /\ lastOp' = Other
    /\ UNCHANGED <<currentDocument, currentAnalysis, analyses, redactionConfig,
                   page, documentId, isAnalyzingRef, isAnalyzing, hasStartedAnalysis,
                   inflight, segVars, applyVars,
                   dashVars, cacheVars>>

\* analyzeMutation.isPending disables the Analyze buttons of the mounted page
UploadPending == \E r \in BagToSet(inflight) : r.origin = "upload" /\ ~r.orphan

\* handleAnalyze up to its await: the request carries the Store's config
HandleAnalyze(d) ==
    /\ page = "upload"
    /\ d \in uploadedFiles
    /\ ~UploadPending
    /\ BagCardinality(inflight) < MaxInFlight
    /\ inflight' = inflight (+) SetToBag({Request("upload", d, redactionConfig, FALSE)})
    /\ lastOp' = Op("handleAnalyze", "pending")
    /\ UNCHANGED <<storeVars, pageVars, segVars, applyVars,
                   dashVars, cacheVars>>

-----------------------------------------------------------------------------
(* The review page *)

\* startAnalysis(docId) up to its await.  With the guard set it returns null
\* at once; otherwise it sets the guard and sends the request with the
\* module's defaultRedactionConfig.
StartAnalysis(d) ==
    /\ page = "review"
    /\ FindIndex(documents, d) >= 1
    /\ IF GuardSet
       THEN /\ lastOp' = Op("startAnalysis", "null")
            /\ UNCHANGED <<isAnalyzingRef, inflight>>
       ELSE /\ BagCardinality(inflight) < MaxInFlight
            /\ isAnalyzingRef' = TRUE
            /\ inflight' = inflight (+) SetToBag({Request("review", d, ReviewConfig, FALSE)})
            /\ lastOp' = Op("startAnalysis", "pending")
    /\ UNCHANGED <<storeVars, page, documentId, isAnalyzing, hasStartedAnalysis,
                   uploadedFiles, segVars, applyVars,
                   dashVars, cacheVars>>

\* The effect of DocumentReview, loadDocumentAndAnalysis(documents, analyses),
\* up to its await.  isMounted is the flag of this run of the effect; when
\* startAnalysis returns null the run resumes at once, and whether its
\* cleanup has run by then is the scheduler's choice.
LoadEffect(isMounted) ==
    /\ page = "review"
    /\ LET document == Find(documents, documentId)
           existingAnalysis == ExistingAnalysis(analyses, documentId)
       IN
       IF document = null
       THEN /\ lastOp' = Other
            /\ UNCHANGED <<storeVars, isAnalyzingRef, hasStartedAnalysis, inflight>>
       ELSE
       /\ currentDocument' = IF IdOf(currentDocument) # document.id
                             THEN document ELSE currentDocument
       /\ UNCHANGED <<documents, analyses, redactionConfig>>
       /\ IF existingAnalysis # null
          THEN /\ currentAnalysis' =
                     IF currentAnalysis = null \/ currentAnalysis.id # existingAnalysis.id
                     THEN existingAnalysis ELSE currentAnalysis
               /\ lastOp' = IF currentAnalysis = null \/ currentAnalysis.id # existingAnalysis.id
                            THEN Op("loadDocumentAndAnalysis", "existing") ELSE Other
               /\ UNCHANGED <<isAnalyzingRef, hasStartedAnalysis, inflight>>
          ELSE IF ~isAnalyzing /\ ~hasStartedAnalysis
          THEN IF GuardSet
               THEN /\ hasStartedAnalysis' = ~isMounted
                    /\ lastOp' = Op("loadDocumentAndAnalysis", "null")
                    /\ UNCHANGED <<currentAnalysis, isAnalyzingRef, inflight>>
               ELSE /\ BagCardinality(inflight) < MaxInFlight
                    /\ hasStartedAnalysis' = TRUE
                    /\ isAnalyzingRef' = TRUE
                    /\ inflight' = inflight (+) SetToBag({Request("review", documentId, ReviewConfig, TRUE)})
                    /\ lastOp' = Op("loadDocumentAndAnalysis", "pending")
                    /\ UNCHANGED currentAnalysis
          ELSE /\ lastOp' = Other
               /\ UNCHANGED <<currentAnalysis, isAnalyzingRef, hasStartedAnalysis, inflight>>
    /\ UNCHANGED <<page, documentId, isAnalyzing, uploadedFiles, segVars, applyVars,
                   dashVars, cacheVars>>

\* The engine answers request r.  For startAnalysis: the response is
\* normalised, made current, the guard is cleared and the caller gets the
\* result; the effect that awaited it sets it current again and clears
\* hasStartedAnalysis if its run is still mounted.  For handleAnalyze:
\* addAnalysis, setCurrentAnalysis, setCurrentDocument.
AnalyzeSucceed(r, result, now, seed, isMounted) ==
    /\ r \in BagToSet(inflight)
    /\ result.document_id = r.docId
    /\ inflight' = inflight (-) SetToBag({r})
    /\ IF r.origin = "review"
       THEN /\ currentAnalysis' = FormattedResult(result, now)
            /\ isAnalyzingRef' = FinallyGuard(r.orphan, TRUE)
            /\ hasStartedAnalysis' =
                  IF r.viaEffect /\ ~r.orphan /\ isMounted THEN FALSE
                  ELSE hasStartedAnalysis
            /\ lastOp' = [op |-> "startAnalysis", outcome |-> "returned", result |-> result]
            /\ UNCHANGED <<currentDocument, documents, analyses, redactionConfig>>
       ELSE /\ analyses' = addAnalysis(analyses, result, now, seed)
            /\ currentAnalysis' = result
            /\ currentDocument' = IF Find(documents, r.docId) # null
                                  THEN Find(documents, r.docId) ELSE currentDocument
            /\ lastOp' = Op("handleAnalyze", "returned")
            /\ UNCHANGED <<documents, redactionConfig, isAnalyzingRef, hasStartedAnalysis>>
    /\ UNCHANGED <<page, documentId, isAnalyzing, uploadedFiles, segVars, applyVars,
                   dashVars, cacheVars>>

\* The request r fails (engine failure, timeout, network).  startAnalysis
\* reports it, rethrows and clears the guard; the effect that awaited it
\* catches the error.  handleAnalyze logs it.
AnalyzeFail(r, isMounted) ==
    /\ r \in BagToSet(inflight)
    /\ inflight' = inflight (-) SetToBag({r})
    /\ IF r.origin = "review"
       THEN /\ isAnalyzingRef' = FinallyGuard(r.orphan, FALSE)
            /\ hasStartedAnalysis' =
                  IF r.viaEffect /\ ~r.orphan /\ isMounted THEN FALSE
                  ELSE hasStartedAnalysis
            /\ lastOp' = Op("startAnalysis", CatchOutcome)
       ELSE /\ lastOp' = Op("handleAnalyze", "logged")
            /\ UNCHANGED <<isAnalyzingRef, hasStartedAnalysis>>
    /\ UNCHANGED <<storeVars, page, documentId, isAnalyzing, uploadedFiles, segVars, applyVars,
                   dashVars, cacheVars>>

-----------------------------------------------------------------------------

\* The application as it runs: the pages' handlers and effects, the router
\* and the engine.  startAnalysis is called by the effect only, and nothing
\* in the pages calls updateRedactionConfig.
Next ==
    \/ \E d \in DocIds : NavigateReview(d)
    \/ \E p \in {"dashboard", "upload"} : NavigateTo(p)
    \/ Render
    \/ \E document \in UploadAnswers : UploadDocument(document)
    \/ \E d \in DocIds : HandleAnalyze(d)
    \/ \E m \in BOOLEAN : LoadEffect(m)
    \/ \E r \in BagToSet(inflight), now \in Times, seed \in Seeds, m \in BOOLEAN :
          \E result \in EngineResponses(r.docId, {TwoFound}) : AnalyzeSucceed(r, result, now, seed, m)
    \/ \E r \in BagToSet(inflight), m \in BOOLEAN : AnalyzeFail(r, m)

Spec == Init /\ [][Next]_vars

-----------------------------------------------------------------------------
(* The review page and its useDocumentAnalysis hook, with startAnalysis     *)
(* open to any caller.  The store starts from its persisted snapshot        *)
(* (PERSIST_OPTIONS.partialize keeps documents, analyses, redactionConfig). *)

PersistedDocuments == <<[id |-> "doc_1", filename |-> "report.pdf"],
                        [id |-> "doc_2", filename |-> "memo.pdf"]>>

HookInit ==
    /\ currentDocument = null
    /\ currentAnalysis = null
    /\ documents = PersistedDocuments
    /\ analyses = <<>>
    /\ redactionConfig = StoreConfig
    /\ page = "dashboard"
    /\ documentId = ""
    /\ isAnalyzingRef = FALSE
    /\ isAnalyzing = FALSE
    /\ hasStartedAnalysis = FALSE
    /\ uploadedFiles = {}
    /\ inflight = EmptyBag
    /\ lastOp = Other
    /\ SegIdle
    /\ ApplyIdle
    /\ DashIdle
    /\ CacheIdle

\* updateRedactionConfig({confidence_threshold: t})
UpdateRedactionConfig(t) ==
    /\ redactionConfig.confidence_threshold # t
    /\ redactionConfig' = updateRedactionConfig(redactionConfig, [confidence_threshold |-> t])
    /\ lastOp' = Op("updateRedactionConfig", "returned")
    /\ UNCHANGED <<currentDocument, currentAnalysis, documents, analyses,
                   pageVars, inflight, segVars, applyVars,
                   dashVars, cacheVars>>

HookNext ==
    \/ \E d \in DocIds : NavigateReview(d)
    \/ \E t \in Thresholds : UpdateRedactionConfig(t)
    \/ NavigateTo("dashboard")
    \/ Render
    \/ \E d \in DocIds : StartAnalysis(d)
    \/ \E m \in BOOLEAN : LoadEffect(m)
    \/ \E r \in BagToSet(inflight), now \in Times, seed \in Seeds, m \in BOOLEAN :
          \E result \in EngineResponses(r.docId, {NoneFound, TwoFound}) : AnalyzeSucceed(r, result, now, seed, m)
    \/ \E r \in BagToSet(inflight), m \in BOOLEAN : AnalyzeFail(r, m)

HookSpec == HookInit /\ [][HookNext]_vars

-----------------------------------------------------------------------------
(* The Review Store on its own: its actions called in any order, with any   *)
(* arguments.                                                               *)

AddDocument(document) ==
    /\ Len(documents) < MaxDocuments
    /\ documents' = addDocument(documents, document)
    /\ lastOp' = Op("addDocument",
                    IF FindIndex(documents, document.id) >= 1 THEN "replaced" ELSE "pushed")
    /\ UNCHANGED <<currentDocument, currentAnalysis, analyses, redactionConfig,
                   pageVars, inflight, segVars, applyVars,
                   dashVars, cacheVars>>

AddAnalysis(analysis, now, seed) ==
    /\ analyses' = addAnalysis(analyses, analysis, now, seed)
    /\ lastOp' = [op |-> "addAnalysis", outcome |-> "stored", analysis |-> analysis]
    /\ UNCHANGED <<currentDocument, currentAnalysis, documents, redactionConfig,
                   pageVars, inflight, segVars, applyVars,
                   dashVars, cacheVars>>

StoreNext ==
    \/ \E document \in Documents : AddDocument(document)
    \/ \E d \in DocIds, now \in Times, seed \in Seeds :
          \E analysis \in EngineResponses(d, SeqsUpTo(RawDetections, MaxDetections)) :
              AddAnalysis(analysis, now, seed)

StoreSpec == Init /\ [][StoreNext]_vars

\* C9: the Store's documents never hold two Documents with the same id.
C9_DocumentIdsUnique ==
    \A i, j \in 1..Len(documents) : i # j => documents[i].id # documents[j].id

\* an addDocument with an id the Store already held, next to another Document
C9_Witness ==
    /\ lastOp = Op("addDocument", "replaced")
    /\ Len(documents) = 2

\* C10: a Detection that comes with a non-empty id keeps it in the Analysis
\* addAnalysis stores; only Detections lacking an id get a fresh one.
C10_AssignedIdsKept ==
    lastOp.op = "addAnalysis" =>
        LET raw == lastOp.analysis
            stored == Find(analyses, raw.id)
        IN  \A i \in 1..Len(raw.detections) :
                Has(raw.detections[i], "id") /\ raw.detections[i].id # "" =>
                    stored.detections[i].id = raw.detections[i].id

-----------------------------------------------------------------------------
(* The Store's analysis actions, called in any order.  setCurrentAnalysis   *)
(* gets what the pages pass it: the engine's response (handleAnalyze), the  *)
(* normalised response (startAnalysis) or an entry of analyses (the load    *)
(* effect); updateDetection gets an id of the current analysis, an id of a  *)
(* stored one, or a stale id.                                               *)

SetCurrentAnalysis(analysis) ==
    /\ currentAnalysis # analysis
    /\ currentAnalysis' = analysis
    /\ lastOp' = Op("setCurrentAnalysis", "done")
    /\ UNCHANGED <<currentDocument, documents, analyses, redactionConfig,
                   pageVars, inflight, segVars, applyVars,
                   dashVars, cacheVars>>

UpdateDetection(detectionId, updates) ==
    /\ currentAnalysis' = updateDetection(currentAnalysis, detectionId, updates)
    /\ analyses' = updateDetectionStored(analyses, currentAnalysis, detectionId, updates)
    /\ lastOp' = [op |-> "updateDetection", outcome |-> "returned",
                  detectionId |-> detectionId, updates |-> updates]
    /\ UNCHANGED <<currentDocument, documents, redactionConfig,
                   pageVars, inflight, segVars, applyVars,
                   dashVars, cacheVars>>

ApproveAllDetections ==
    /\ currentAnalysis' = approveAllDetections(currentAnalysis)
    /\ analyses' = StoreCurrent(analyses, approveAllDetections(currentAnalysis))
    /\ lastOp' = Op("approveAllDetections", "returned")
    /\ UNCHANGED <<currentDocument, documents, redactionConfig,
                   pageVars, inflight, segVars, applyVars,
                   dashVars, cacheVars>>

RejectAllDetections ==
    /\ currentAnalysis' = rejectAllDetections(currentAnalysis)
    /\ analyses' = StoreCurrent(analyses, rejectAllDetections(currentAnalysis))
    /\ lastOp' = Op("rejectAllDetections", "returned")
    /\ UNCHANGED <<currentDocument, documents, redactionConfig,
                   pageVars, inflight, segVars, applyVars,
                   dashVars, cacheVars>>

\* the ids of the detections of an analysis ("" for a detection without one)
DetectionIds(analysis) ==
    IF analysis = null THEN {}
    ELSE {IdOf(analysis.detections[i]) : i \in 1..Len(analysis.detections)}

StoredDetectionIds == UNION {DetectionIds(analyses[i]) : i \in 1..Len(analyses)}

PageResponses == EngineResponses("doc_1", {NoneFound, TwoFound})

AnalysisNext ==
    \/ \E analysis \in PageResponses, now \in Times, seed \in Seeds :
          AddAnalysis(analysis, now, seed)
    \/ \E analysis \in PageResponses : SetCurrentAnalysis(analysis)
    \/ \E analysis \in PageResponses, now \in Times :
          SetCurrentAnalysis(FormattedResult(analysis, now))
    \/ \E i \in 1..Len(analyses) : SetCurrentAnalysis(analyses[i])
    \/ \E detectionId \in DetectionIds(currentAnalysis) \cup StoredDetectionIds \cup {"stale"},
          approved \in BOOLEAN :
          UpdateDetection(detectionId, [approved |-> approved])
    \/ ApproveAllDetections
    \/ RejectAllDetections

AnalysisSpec == Init /\ [][AnalysisNext]_vars

\* C11: every Detection of every Analysis held in `analyses` has a non-empty
\* id, unique within that Analysis.
C11_StoredDetectionIds ==
    \A a \in 1..Len(analyses) :
        LET ds == analyses[a].detections
        IN  /\ \A i \in 1..Len(ds) : Has(ds[i], "id") /\ ds[i].id # ""
            /\ \A i, j \in 1..Len(ds) : i # j => IdOf(ds[i]) # IdOf(ds[j])

AllApproved(analysis, value) ==
    \A i \in 1..Len(analysis.detections) :
        Has(analysis.detections[i], "approved") /\ analysis.detections[i].approved = value

\* C12: approveAllDetections followed at once by rejectAllDetections leaves
\* every Detection of currentAnalysis with approved = false, and the other
\* order leaves every one with approved = true.
C12_LastWriterWins ==
    [][/\ lastOp.op = "approveAllDetections" /\ lastOp'.op = "rejectAllDetections"
            /\ currentAnalysis' # null
            => AllApproved(currentAnalysis', FALSE)
       /\ lastOp.op = "rejectAllDetections" /\ lastOp'.op = "approveAllDetections"
            /\ currentAnalysis' # null
            => AllApproved(currentAnalysis', TRUE)]_vars

\* rejected all, right after an approval of all, with detections to reject
C12_Witness ==
    /\ lastOp.op = "rejectAllDetections"
    /\ currentAnalysis # null
    /\ Len(currentAnalysis.detections) = 2
    /\ AllApproved(currentAnalysis, FALSE)
    /\ Find(analyses, currentAnalysis.id) = currentAnalysis

\* the entries of `analyses` stored under another id than `id`
EntriesButFor(as, id) == {as[i] : i \in {k \in 1..Len(as) : as[k].id # id}}

\* C13: updateDetection(id, fields) for an id present in currentAnalysis
\* changes only the given fields of one Detection carrying that id: the
\* other Detections, the analysis's top-level fields, the entries of
\* `analyses` under another analysis id and the rest of the Store stay.
C13_UpdateDetectionFrame ==
    [][lastOp'.op = "updateDetection"
       /\ lastOp'.detectionId \in DetectionIds(currentAnalysis) =>
          LET old == currentAnalysis
              new == currentAnalysis'
              fields == DOMAIN lastOp'.updates
          IN  /\ new # null
              /\ DOMAIN new = DOMAIN old
              /\ \A f \in DOMAIN old \ {"detections"} : new[f] = old[f]
              /\ Len(new.detections) = Len(old.detections)
              /\ \E k \in 1..Len(old.detections) :
                    /\ IdOf(old.detections[k]) = lastOp'.detectionId
                    /\ \A j \in 1..Len(old.detections) \ {k} :
                          new.detections[j] = old.detections[j]
                    /\ DOMAIN new.detections[k] = DOMAIN old.detections[k] \cup fields
                    /\ \A f \in fields : new.detections[k][f] = lastOp'.updates[f]
                    /\ \A f \in DOMAIN old.detections[k] \ fields :
                          new.detections[k][f] = old.detections[k][f]
              /\ EntriesButFor(analyses', old.id) = EntriesButFor(analyses, old.id)
              /\ UNCHANGED <<currentDocument, documents, redactionConfig>>]_vars

\* one of two detections updated, with another analysis in `analyses`
C13_Witness ==
    /\ lastOp.op = "updateDetection"
    /\ currentAnalysis # null
    /\ lastOp.detectionId \in DetectionIds(currentAnalysis)
    /\ Len(currentAnalysis.detections) = 2
    /\ EntriesButFor(analyses, currentAnalysis.id) # {}

\* C14: updateDetection with an id no Detection of currentAnalysis carries,
\* or with currentAnalysis null, leaves the whole Store unchanged, also when
\* a stored analysis holds a Detection with that id.
C14_UnknownIdIsNoOp ==
    [][lastOp'.op = "updateDetection"
       /\ lastOp'.detectionId \notin DetectionIds(currentAnalysis)
          => UNCHANGED storeVars]_vars

\* an id of a stored analysis, not of the current one
C14_Witness ==
    /\ lastOp.op = "updateDetection"
    /\ currentAnalysis # null
    /\ lastOp.detectionId \notin DetectionIds(currentAnalysis)
    /\ lastOp.detectionId \in StoredDetectionIds
    /\ Find(analyses, currentAnalysis.id) # currentAnalysis

-----------------------------------------------------------------------------
(* The review page once a document is analysed: its approval buttons and    *)
(* handleApplyRedactions.                                                   *)

\* detections.filter(d => d.approved): an absent approved is not approved
Approved(d) == Has(d, "approved") /\ d.approved = TRUE
approvedDetections(analysis) == SelectSeq(analysis.detections, Approved)

\* a handler without the check of the approved subset
NeverEmpty(approved) == FALSE

\* if (approvedDetections.length === 0) { toast.error(...); return }
NoneApproved(approved) == Len(approved) = 0

\* `manual-${Date.now()}-${Math.random().toString(36).substr(2, 9)}`
ManualId(now, seed, i) == "manual-" \o ToString(now) \o "-" \o seed \o ToString(i)

\* the element of the payload built from an approved detection d:
\* {...d, detection_reason: ..., id: ..., approved: true, pattern_name: ..., context: ...}
Redaction(d, now, seed, i) ==
    [detection_reason |-> OrString(d, "detection_reason", "Manually approved"),
     id |-> OrString(d, "id", ManualId(now, seed, i)),
     approved |-> TRUE,
     pattern_name |-> OrString(d, "pattern_name", ""),
     context |-> OrString(d, "context", "")] @@ d

\* a payload built from every detection, the filter forgotten
AllDetectionsSent(analysis, now, seed) ==
    [i \in 1..Len(analysis.detections) |-> Redaction(analysis.detections[i], now, seed, i)]

\* approvedDetections.map(d => ({...d, ...}))
Redactions(analysis, now, seed) ==
    LET approved == approvedDetections(analysis)
    IN  [i \in 1..Len(approved) |-> Redaction(approved[i], now, seed, i)]

\* a defaulting written into the detections of the Store
DefaultedInPlace(analysis, now, seed) ==
    [analysis EXCEPT !.detections =
        [i \in 1..Len(analysis.detections) |->
            IF Approved(analysis.detections[i])
            THEN Redaction(analysis.detections[i], now, seed, i)
            ELSE analysis.detections[i]]]

\* what building the payload leaves in currentAnalysis: map() and the
\* spread {...d} build new objects, the detections of the Store are not written
AfterPayload(analysis, now, seed) == analysis

\* a download named after the document alone
PlainName(filename) == filename

\* a.download = `redacted_${currentDocument.filename}`
DownloadName(filename) == "redacted_" \o filename

\* handleApplyRedactions up to its return or its await; its button is not
\* rendered while isAnalyzing
HandleApplyRedactions(now, seed) ==
    /\ page = "review"
    /\ ~isAnalyzing
    /\ IF currentDocument = null \/ currentAnalysis = null
       THEN /\ lastOp' = Op("handleApplyRedactions", "rejected")
            /\ UNCHANGED <<currentAnalysis, applying>>
       ELSE IF NoneApproved(approvedDetections(currentAnalysis))
       THEN /\ lastOp' = Op("handleApplyRedactions", "rejected")
            /\ UNCHANGED <<currentAnalysis, applying>>
       ELSE /\ BagCardinality(applying) < MaxApplying
            /\ applying' = applying (+) SetToBag({
                  [documentId |-> currentDocument.id,
                   redactions |-> Redactions(currentAnalysis, now, seed),
                   filename |-> currentDocument.filename]})
            /\ currentAnalysis' = AfterPayload(currentAnalysis, now, seed)
            /\ lastOp' = Op("handleApplyRedactions", "pending")
    /\ UNCHANGED <<currentDocument, documents, analyses, redactionConfig,
                   pageVars, inflight, segVars, downloads, dashVars, cacheVars>>

\* The service answers apply request r with the redacted PDF: the browser
\* is made to download it, under the name built from the handler's document
ApplySucceed(r) ==
    /\ r \in BagToSet(applying)
    /\ applying' = applying (-) SetToBag({r})
    /\ downloads' = downloads \cup {DownloadName(r.filename)}
    /\ lastOp' = Op("handleApplyRedactions", "downloaded")
    /\ UNCHANGED <<storeVars, pageVars, inflight, segVars, dashVars, cacheVars>>

\* The apply request r fails (network error, non-success status): the
\* mutation's onError toasts, the handler logs
ApplyFail(r) ==
    /\ r \in BagToSet(applying)
    /\ applying' = applying (-) SetToBag({r})
    /\ lastOp' = Op("handleApplyRedactions", "logged")
    /\ UNCHANGED <<storeVars, pageVars, inflight, segVars, downloads, dashVars, cacheVars>>

\* The state the review page shows a document's detections in: the document
\* was analysed by startAnalysis (the normalised response is current and
\* `analyses` is empty), or by handleAnalyze before the page was opened (the
\* engine's response is current, addAnalysis stored its copy)
ReviewInit ==
    /\ documents = PersistedDocuments
    /\ redactionConfig = StoreConfig
    /\ page = "review"
    /\ isAnalyzingRef = FALSE
    /\ isAnalyzing = FALSE
    /\ hasStartedAnalysis = FALSE
    /\ uploadedFiles = {}
    /\ inflight = EmptyBag
    /\ lastOp = Other
    /\ SegIdle
    /\ ApplyIdle
    /\ DashIdle
    /\ CacheIdle
    /\ \E k \in 1..Len(PersistedDocuments), now \in Times, seed \in Seeds :
          /\ currentDocument = PersistedDocuments[k]
          /\ documentId = PersistedDocuments[k].id
          /\ \E result \in EngineResponses(PersistedDocuments[k].id, {NoneFound, TwoFound}) :
                \/ /\ currentAnalysis = FormattedResult(result, now)
                   /\ analyses = <<>>
                \/ /\ currentAnalysis = result
                   /\ analyses = addAnalysis(<<>>, result, now, seed)

ReviewNext ==
    \/ \E detectionId \in DetectionIds(currentAnalysis), approved \in BOOLEAN :
          UpdateDetection(detectionId, [approved |-> approved])
    \/ ApproveAllDetections
    \/ RejectAllDetections
    \/ \E now \in Times, seed \in Seeds : HandleApplyRedactions(now, seed)
    \/ \E r \in BagToSet(applying) : ApplySucceed(r)
    \/ \E r \in BagToSet(applying) : ApplyFail(r)

ReviewSpec == ReviewInit /\ [][ReviewNext]_vars

\* the step taken is a call of handleApplyRedactions, up to its return or await
ApplyCalled ==
    lastOp'.op = "handleApplyRedactions" /\ lastOp'.outcome \in {"rejected", "pending"}

\* the places of the detections of the analysis with approved = true, and
\* the k-th of them in list order
ApprovedPlaces(analysis) ==
    {i \in 1..Len(analysis.detections) :
        Has(analysis.detections[i], "approved") /\ analysis.detections[i].approved = TRUE}
KthApproved(analysis, k) ==
    CHOOSE i \in ApprovedPlaces(analysis) :
        Cardinality({j \in ApprovedPlaces(analysis) : j <= i}) = k

\* C15: when no Detection of the current analysis is approved, a call of
\* handleApplyRedactions sends no apply request and triggers no download.
C15_EmptyApprovedRejected ==
    [][ApplyCalled /\ (currentAnalysis = null \/ ApprovedPlaces(currentAnalysis) = {}) =>
          /\ applying' = applying
          /\ downloads' = downloads
          /\ lastOp'.outcome = "rejected"]_vars

\* rejected with detections at hand, none approved
C15_Witness ==
    /\ lastOp = Op("handleApplyRedactions", "rejected")
    /\ currentAnalysis # null
    /\ Len(currentAnalysis.detections) = 2
    /\ ApprovedPlaces(currentAnalysis) = {}
    /\ applying = EmptyBag

\* C16: a download is triggered only in the step in which an apply request
\* returns successfully, and its name is `redacted_` followed by the
\* filename of the document the request was for; a failed request
\* triggers none.
C16_DownloadAfterSuccess ==
    [][/\ downloads' # downloads \/ lastOp'.outcome = "downloaded" =>
              \E r \in BagToSet(applying) :
                  /\ applying' = applying (-) SetToBag({r})
                  /\ lastOp'.outcome = "downloaded"
                  /\ downloads' = downloads \cup
                        {"redacted_" \o Find(documents, r.documentId).filename}
       /\ lastOp'.outcome = "logged" => downloads' = downloads]_vars

C16_Witness ==
    /\ lastOp = Op("handleApplyRedactions", "downloaded")
    /\ IdOf(currentDocument) = "doc_1"
    /\ downloads = {"redacted_report.pdf"}

\* C17: the apply request carries exactly the Detections of currentAnalysis
\* with approved = true, in list order, each with its own fields, a
\* non-empty id, approved = true and pattern_name, context and
\* detection_reason defined.
C17_PayloadIsApprovedSubset ==
    [][lastOp' = Op("handleApplyRedactions", "pending") =>
          \E r \in BagToSet(applying') :
              /\ applying' = applying (+) SetToBag({r})
              /\ r.documentId = currentDocument.id
              /\ Len(r.redactions) = Cardinality(ApprovedPlaces(currentAnalysis))
              /\ \A k \in 1..Len(r.redactions) :
                    LET d == currentAnalysis.detections[KthApproved(currentAnalysis, k)]
                        sent == r.redactions[k]
                    IN  /\ \A f \in DOMAIN d :
                              f \notin {"id", "detection_reason", "pattern_name", "context"}
                                  => f \in DOMAIN sent /\ sent[f] = d[f]
                        /\ Has(d, "id") /\ d.id # "" => sent.id = d.id
                        /\ {"id", "approved", "pattern_name", "context", "detection_reason"}
                              \subseteq DOMAIN sent
                        /\ sent.id # ""
                        /\ sent.approved = TRUE]_vars

\* one of two detections sent, the rejected one left out, its id defaulted
C17_Witness ==
    /\ lastOp = Op("handleApplyRedactions", "pending")
    /\ Len(currentAnalysis.detections) = 2
    /\ \E r \in BagToSet(applying) :
          /\ Len(r.redactions) = 1
          /\ r.redactions[1].id = ManualId(1000, "k3", 1)

\* C18: applying redactions never changes the Store, whether the call is
\* rejected, its request succeeds or its request fails.
C18_ApplyLeavesStore ==
    [][lastOp'.op = "handleApplyRedactions" => UNCHANGED storeVars]_vars

\* a failed apply, of detections whose payload had fields defaulted
C18_Witness ==
    /\ lastOp = Op("handleApplyRedactions", "logged")
    /\ currentAnalysis # null
    /\ \E i \in ApprovedPlaces(currentAnalysis) :
          ~Has(currentAnalysis.detections[i], "pattern_name")

-----------------------------------------------------------------------------
(* renderTextWithHighlights of the legacy RedactionService (App.tsx).  A     *)
(* string is the sequence of its characters; positions count from 0 as in    *)
(* JavaScript.                                                               *)

Chars == {"a", "b"}
Texts == SeqsUpTo(Chars, MaxText)
RedactionTexts == SeqsUpTo(Chars, 2)
Pages == {0, 1}
RedactionItems == [page : Pages, text : RedactionTexts]

\* text.slice(from, to)
Slice(text, from, to) == SubSeq(text, from + 1, to)

\* text.indexOf(pattern, from): -1 when there is no occurrence at or after from
IndexOf(text, pattern, from) ==
    LET hits == {i \in from..(Len(text) - Len(pattern)) :
                    Slice(text, i, i + Len(pattern)) = pattern}
    IN  IF hits = {} THEN -1 ELSE CHOOSE i \in hits : \A j \in hits : i <= j

\* analysis?.redactions.filter(r => r.page === currentPage), each item with
\* its index in analysis.redactions (indexOf compares object identity)
currentPageRedactions ==
    LET onPage == SelectSeq([i \in 1..Len(analysisRedactions) |-> i],
                            LAMBDA i : analysisRedactions[i].page = currentPage)
    IN  [k \in 1..Len(onPage) |-> [indexOf |-> onPage[k] - 1] @@ analysisRedactions[onPage[k]]]

\* the index in the page's list taken for the tag
PageIndexOnly(redactions) ==
    [k \in 1..Len(redactions) |-> [globalIndex |-> k - 1] @@ redactions[k]]

\* .map((r, idx) => ({...r, globalIndex: analysis?.redactions.indexOf(r) || idx}))
WithGlobalIndex(redactions) ==
    [k \in 1..Len(redactions) |->
        [globalIndex |-> IF redactions[k].indexOf # 0 THEN redactions[k].indexOf ELSE k - 1]
            @@ redactions[k]]

\* .sort((a, b) => text.indexOf(a.text) - text.indexOf(b.text)): the sort is stable
SortByFirstOccurrence(text, rs) ==
    LET pos(i) == IndexOf(text, rs[i].text, 0)
        rank(i) == Cardinality({j \in 1..Len(rs) :
                                  pos(j) < pos(i) \/ (pos(j) = pos(i) /\ j < i)})
    IN  [k \in 1..Len(rs) |-> rs[CHOOSE i \in 1..Len(rs) : rank(i) = k - 1]]

sortedRedactions(text, redactions) ==
    SortByFirstOccurrence(text,
        SelectSeq(WithGlobalIndex(redactions), LAMBDA r : IndexOf(text, r.text, 0) >= 0))

\* a search that starts over at the beginning of the text
SearchFromStart(currentIndex) == 0

\* text.indexOf(redaction.text, currentIndex): the search starts at the cursor
SearchFrom(currentIndex) == currentIndex

\* the trailing text forgotten
RemainingDropped(text, currentIndex) == <<>>

\* if (currentIndex < text.length) segments.push({text: text.slice(currentIndex), ...})
Remaining(text, currentIndex) ==
    IF currentIndex < Len(text)
    THEN <<[text |-> Slice(text, currentIndex, Len(text)), isRedacted |-> FALSE]>>
    ELSE <<>>

\* One turn of sortedRedactions.forEach.  A redacted segment also records
\* startIndex, the place in the text it was matched at.
ForEachStep(text, redaction, st) ==
    LET startIndex == IndexOf(text, redaction.text, SearchFrom(st.currentIndex))
        before == IF startIndex > st.currentIndex
                  THEN <<[text |-> Slice(text, st.currentIndex, startIndex),
                          isRedacted |-> FALSE]>>
                  ELSE <<>>
    IN  IF startIndex >= 0
        THEN [segments |-> st.segments \o before \o
                            <<[text |-> redaction.text, isRedacted |-> TRUE,
                               redactionIndex |-> redaction.globalIndex,
                               startIndex |-> startIndex]>>,
              currentIndex |-> startIndex + Len(redaction.text)]
        ELSE st

RECURSIVE ForEach(_, _, _, _)
ForEach(text, sorted, k, st) ==
    IF k > Len(sorted) THEN st
    ELSE ForEach(text, sorted, k + 1, ForEachStep(text, sorted[k], st))

renderTextWithHighlights(text, redactions) ==
    IF Len(redactions) = 0
    THEN <<[text |-> text, isRedacted |-> FALSE]>>
    ELSE LET st == ForEach(text, sortedRedactions(text, redactions), 1,
                           [segments |-> <<>>, currentIndex |-> 0])
         IN  st.segments \o Remaining(text, st.currentIndex)

\* The highlighter's inputs: the text of the page shown and the analysis
SegInit ==
    /\ currentDocument = null
    /\ currentAnalysis = null
    /\ documents = <<>>
    /\ analyses = <<>>
    /\ redactionConfig = StoreConfig
    /\ page = "dashboard"
    /\ documentId = ""
    /\ isAnalyzingRef = FALSE
    /\ isAnalyzing = FALSE
    /\ hasStartedAnalysis = FALSE
    /\ uploadedFiles = {}
    /\ inflight = EmptyBag
    /\ lastOp = Other
    /\ pageText \in Texts
    /\ analysisRedactions \in SeqsUpTo(RedactionItems, MaxRedactions)
    /\ currentPage = 0
    /\ segments = <<>>
    /\ rendered = FALSE
    /\ ApplyIdle
    /\ DashIdle
    /\ CacheIdle

RenderText ==
    /\ ~rendered
    /\ segments' = renderTextWithHighlights(pageText, currentPageRedactions)
    /\ rendered' = TRUE
    /\ UNCHANGED <<storeVars, pageVars, inflight, lastOp,
                   pageText, analysisRedactions, currentPage, applyVars,
                   dashVars, cacheVars>>

SegNext == RenderText

SegSpec == SegInit /\ [][SegNext]_vars

RECURSIVE Concat(_, _)
Concat(segs, k) == IF k > Len(segs) THEN <<>> ELSE segs[k].text \o Concat(segs, k + 1)

Redacted == {i \in 1..Len(segments) : segments[i].isRedacted}

\* C7: concatenating the texts of the segments, in output order, yields
\* exactly the page text.
C7_SegmentsReproduceText == rendered => Concat(segments, 1) = pageText

\* redacted and plain segments both, with text before, between and after
C7_Witness ==
    /\ rendered
    /\ Len(segments) >= 3
    /\ Cardinality(Redacted) >= 1
    /\ ~segments[1].isRedacted
    /\ ~segments[Len(segments)].isRedacted

\* C8: no two redacted segments cover overlapping ranges of the text: a
\* later redacted segment starts at or after the end of every earlier one.
C8_RedactedDisjoint ==
    rendered =>
        \A i, j \in Redacted :
            i < j => segments[i].startIndex + Len(segments[i].text) <= segments[j].startIndex

\* the same text redacted twice, at two occurrences
C8_Witness ==
    /\ rendered
    /\ \E i, j \in Redacted :
          i < j /\ segments[i].text = segments[j].text /\ Len(segments[i].text) >= 1

-----------------------------------------------------------------------------
(* Single flight *)

\* the analyze requests in flight for document d, as a bag
RequestsFor(d) ==
    [r \in {x \in BagToSet(inflight) : x.docId = d} |-> CopiesIn(r, inflight)]

\* those of them that startAnalysis sent
ReviewRequestsFor(d) ==
    [r \in {x \in BagToSet(inflight) : x.docId = d /\ x.origin = "review"} |->
        CopiesIn(r, inflight)]

\* the requests of the mounted DocumentReview instance's hook
LiveReview == {r \in BagToSet(inflight) : r.origin = "review" /\ ~r.orphan}

\* the step taken is a call of startAnalysis, up to its return or its await
Called == lastOp'.op = "startAnalysis" /\ lastOp'.outcome \in {"null", "pending"}

\* the step taken is a run of the effect that calls startAnalysis
CalledByEffect ==
    lastOp'.op = "loadDocumentAndAnalysis" /\ lastOp'.outcome \in {"null", "pending"}

Invoked == Called \/ CalledByEffect

\* the step taken is the completion of request r
Completes(r) == r \in BagToSet(inflight) /\ inflight' = inflight (-) SetToBag({r})

\* C1: while the request of one startAnalysis call for a document is in
\* flight, another startAnalysis call for that document sends none: of the
\* requests startAnalysis sent, at most one per document is in flight.
C1_OneRequestPerDocument ==
    \A d \in DocIds : BagCardinality(ReviewRequestsFor(d)) <= 1

\* C2: at every moment at most one analyze request for a given document is
\* in flight, whichever surface sent it (startAnalysis or handleAnalyze).
C2_OneInFlightPerDocument ==
    \A d \in DocIds : BagCardinality(RequestsFor(d)) <= 1

\* C3: when startAnalysis returns its result, the Analysis is stored in
\* `analyses` under its id (once) and is currentAnalysis.
C3_ResultStoredAndCurrent ==
    lastOp.op = "startAnalysis" /\ lastOp.outcome = "returned" =>
        /\ currentAnalysis # null
        /\ Cardinality({i \in 1..Len(analyses) : analyses[i].id = currentAnalysis.id}) = 1
        /\ Find(analyses, currentAnalysis.id) = currentAnalysis

\* C4: when the request of startAnalysis fails, the step that handles the
\* failure leaves currentAnalysis, `analyses` and the rest of the Store as
\* they were, and the caller of startAnalysis gets the error thrown.
C4_FailureCommitsNothing ==
    [][\A r \in BagToSet(inflight) :
          Completes(r) /\ r.origin = "review" /\ lastOp'.outcome # "returned" =>
              /\ lastOp' = Op("startAnalysis", "thrown")
              /\ UNCHANGED storeVars]_vars

C4_Witness ==
    /\ lastOp = Op("startAnalysis", "thrown")
    /\ currentAnalysis = null
    /\ analyses = <<>>
    /\ inflight = EmptyBag

\* C5: the completion of a request of the mounted hook, success or failure,
\* leaves the guard clear; and a startAnalysis call made while the hook has
\* no request in flight is not collapsed: it sends a request.
C5_GuardCleared ==
    [][/\ \A r \in LiveReview : Completes(r) => ~isAnalyzingRef'
       /\ Invoked /\ LiveReview = {} =>
              /\ lastOp'.outcome = "pending"
              /\ BagCardinality(inflight') = BagCardinality(inflight) + 1]_vars

\* a call that sent a fresh request after an earlier run had completed
C5_Witness ==
    /\ lastOp = Op("startAnalysis", "pending")
    /\ currentAnalysis # null
    /\ isAnalyzingRef
    /\ BagCardinality(inflight) = 1

\* C6: a startAnalysis call made while the guard is set returns null, sends
\* no request, leaves the guard set and leaves every Store field unchanged.
C6_CollapsedCallIsNoOp ==
    [][/\ Invoked /\ isAnalyzingRef =>
              /\ lastOp'.outcome = "null"
              /\ inflight' = inflight
              /\ isAnalyzingRef'
              /\ UNCHANGED <<currentAnalysis, documents, analyses, redactionConfig>>
       /\ Called /\ isAnalyzingRef => UNCHANGED storeVars]_vars

C6_Witness ==
    /\ lastOp = Op("startAnalysis", "null")
    /\ isAnalyzingRef
    /\ LiveReview # {}

-----------------------------------------------------------------------------
(* Ingestion: what becomes current, and the options the request carries *)

\* the config of the request a call of startAnalysis sent in the step taken
SentConfigs ==
    {r.config : r \in {x \in BagToSet(inflight') :
                          CopiesIn(x, inflight') > CopiesIn(x, inflight)}}

\* C19: right after an Analysis is ingested, by startAnalysis or by
\* handleAnalyze, every Detection of currentAnalysis has approved = true.
C19_IngestedApproved ==
    lastOp.op \in {"startAnalysis", "handleAnalyze"} /\ lastOp.outcome = "returned" =>
        /\ currentAnalysis # null
        /\ \A i \in 1..Len(currentAnalysis.detections) :
              /\ Has(currentAnalysis.detections[i], "approved")
              /\ currentAnalysis.detections[i].approved = TRUE

\* C20: the request a call of startAnalysis sends carries the Store's
\* redactionConfig as it is at the call, changed options included.
C20_RequestCarriesStoreConfig ==
    [][Invoked /\ lastOp'.outcome = "pending" => SentConfigs = {redactionConfig}]_vars

-----------------------------------------------------------------------------
(* The dashboard: deleting a document (Dashboard.tsx, useDeleteDocument) *)

\* deleteDocument.isPending disables the delete buttons
DeletePending == deleting # {}

\* what a successful DELETE /documents/{id} does to the Store's documents:
\* onSuccess invalidates the 'documents' query and shows a toast, and
\* handleDeleteDocument refetches that query; no Store action is called
AfterDelete(docs, d) == docs

\* handleDeleteDocument up to its await; `confirmed` is window.confirm's answer
HandleDeleteDocument(d, confirmed) ==
    /\ page = "dashboard"
    /\ ~DeletePending
    /\ IF confirmed
       THEN /\ deleting' = deleting \cup {d}
            /\ lastOp' = Op("handleDeleteDocument", "pending")
       ELSE /\ lastOp' = Op("handleDeleteDocument", "cancelled")
            /\ UNCHANGED deleting
    /\ UNCHANGED <<storeVars, pageVars, inflight, segVars, applyVars, cacheVars>>

\* the delete request for d succeeded
DeleteSucceed(d) ==
    /\ d \in deleting
    /\ deleting' = deleting \ {d}
    /\ documents' = AfterDelete(documents, d)
    /\ lastOp' = [op |-> "handleDeleteDocument", outcome |-> "deleted", documentId |-> d]
    /\ UNCHANGED <<currentDocument, currentAnalysis, analyses, redactionConfig,
                   pageVars, inflight, segVars, applyVars, cacheVars>>

\* the delete request for d failed: onError's toast, the catch's log
DeleteFail(d) ==
    /\ d \in deleting
    /\ deleting' = deleting \ {d}
    /\ lastOp' = Op("handleDeleteDocument", "logged")
    /\ UNCHANGED <<storeVars, pageVars, inflight, segVars, applyVars, cacheVars>>

DashNext ==
    \/ \E p \in {"dashboard", "upload"} : NavigateTo(p)
    \/ \E d \in DocIds : NavigateReview(d)
    \* the service gives an uploaded file an id no document of its has
    \/ \E document \in UploadAnswers : document.id \notin deleting /\ UploadDocument(document)
    \/ \E d \in DocIds, confirmed \in BOOLEAN : HandleDeleteDocument(d, confirmed)
    \/ \E d \in DocIds : DeleteSucceed(d)
    \/ \E d \in DocIds : DeleteFail(d)

DashSpec == Init /\ [][DashNext]_vars

\* C21: once the delete request for a document has succeeded, the Store's
\* documents hold no document of that id.
C21_DeletedLeavesStore ==
    [][lastOp'.op = "handleDeleteDocument" /\ lastOp'.outcome = "deleted"
          => Find(documents', lastOp'.documentId) = null]_vars

-----------------------------------------------------------------------------
(* The review page loading a document that was analysed more than once *)

\* the engine names every Analysis it returns with an id of its own
FreshResponses(docId) ==
    {result \in EngineResponses(docId, {TwoFound}) : FindIndex(analyses, result.id) = 0}

\* The application with such an engine: `analyses` gains entries by
\* handleAnalyze's addAnalysis only, each under a new key, so its key order
\* is the order the analyses were stored in.
LoadNext ==
    \/ \E d \in DocIds : NavigateReview(d)
    \/ \E p \in {"dashboard", "upload"} : NavigateTo(p)
    \/ Render
    \/ \E document \in UploadAnswers : UploadDocument(document)
    \/ \E d \in DocIds : HandleAnalyze(d)
    \/ \E m \in BOOLEAN : LoadEffect(m)
    \/ \E r \in BagToSet(inflight), now \in Times, seed \in Seeds, m \in BOOLEAN :
          \E result \in (IF r.origin = "upload" THEN FreshResponses(r.docId)
                         ELSE EngineResponses(r.docId, {TwoFound})) :
             AnalyzeSucceed(r, result, now, seed, m)
    \/ \E r \in BagToSet(inflight), m \in BOOLEAN : AnalyzeFail(r, m)

LoadSpec == Init /\ [][LoadNext]_vars

\* the places in `analyses` of the analyses of document docId
AnalysesOf(docId) == {i \in 1..Len(analyses) : analyses[i].document_id = docId}

\* the one of them stored last
MostRecent(docId) ==
    analyses[CHOOSE i \in AnalysesOf(docId) : \A j \in AnalysesOf(docId) : j <= i]

\* C22: when the load effect of the review page makes a stored Analysis
\* current and `analyses` holds more than one for the document, the one it
\* makes current is the one stored last.
C22_MostRecentLoaded ==
    [][lastOp' = Op("loadDocumentAndAnalysis", "existing")
          /\ Cardinality(AnalysesOf(documentId)) > 1
          => currentAnalysis' = MostRecent(documentId)]_vars

-----------------------------------------------------------------------------
(* The single-page viewer (App.tsx, RedactionService): its per-page caches *)

\* what GET /document/{docId}/page/{pageNum} and .../text/{pageNum} answer
\* with: the image, or the text, of that page of that document
PageContent(docId, pageNum) == [document_id |-> docId, page |-> pageNum]

\* POST /upload answers with a DocumentAnalysis of the document it created
UploadAnalysis(filename) ==
    LET answer == CHOOSE a \in UploadAnswers : a.filename = filename
    IN  [document_id |-> answer.id, total_pages |-> Cardinality(Pages)]

\* handleFileSelect, for a PDF file
ImagesOnSelect(images) == <<>>
TextsOnSelect(texts) == texts

HandleFileSelect(file) ==
    /\ selectedFile' = file
    /\ appAnalysis' = null
    /\ pageImages' = ImagesOnSelect(pageImages)
    /\ pageTexts' = TextsOnSelect(pageTexts)
    /\ lastOp' = Op("handleFileSelect", "returned")
    /\ UNCHANGED <<storeVars, pageVars, inflight, segVars, applyVars, dashVars,
                   uploading, viewMode, fetching>>

\* handleUpload up to its await; the button is disabled while isUploading
HandleUpload ==
    /\ selectedFile # NoFile
    /\ uploading = {}
    /\ uploading' = {selectedFile}
    /\ lastOp' = Op("handleUpload", "pending")
    /\ UNCHANGED <<storeVars, pageVars, inflight, segVars, applyVars, dashVars,
                   selectedFile, appAnalysis, viewMode, pageTexts, pageImages, fetching>>

\* the upload of `file` succeeded: setAnalysis(analysisResult)
UploadSucceed(file) ==
    /\ file \in uploading
    /\ uploading' = uploading \ {file}
    /\ appAnalysis' = UploadAnalysis(file)
    /\ lastOp' = Op("handleUpload", "returned")
    /\ UNCHANGED <<storeVars, pageVars, inflight, segVars, applyVars, dashVars,
                   selectedFile, viewMode, pageTexts, pageImages, fetching>>

\* the upload failed: setError
UploadFail(file) ==
    /\ file \in uploading
    /\ uploading' = uploading \ {file}
    /\ lastOp' = Op("handleUpload", "failed")
    /\ UNCHANGED <<storeVars, pageVars, inflight, segVars, applyVars, dashVars,
                   selectedFile, appAnalysis, viewMode, pageTexts, pageImages, fetching>>

\* setViewMode
SetViewMode(mode) ==
    /\ viewMode # mode
    /\ viewMode' = mode
    /\ lastOp' = Other
    /\ UNCHANGED <<storeVars, pageVars, inflight, segVars, applyVars, dashVars,
                   selectedFile, uploading, appAnalysis, pageTexts, pageImages, fetching>>

\* navigateToPage
NavigateToPage(pageNum) ==
    /\ appAnalysis # null
    /\ pageNum >= 0 /\ pageNum < appAnalysis.total_pages
    /\ currentPage # pageNum
    /\ currentPage' = pageNum
    /\ lastOp' = Other
    /\ UNCHANGED <<storeVars, pageVars, inflight, pageText, analysisRedactions,
                   segments, rendered, applyVars, dashVars, cacheVars>>

\* the preload effect's pages
PagesToLoad ==
    {p \in {currentPage - 1, currentPage, currentPage + 1} :
        p >= 0 /\ p < appAnalysis.total_pages}

\* loadPageImage(analysis.document_id, pageNum), called by the effect, up to
\* its await: nothing is fetched for a page the cache has an entry for
LoadPageImage(pageNum) ==
    /\ appAnalysis # null
    /\ pageNum \in PagesToLoad
    /\ pageNum \notin DOMAIN pageImages
    /\ Cardinality(fetching) < MaxFetching
    /\ fetching' = fetching \cup
           {[kind |-> "image", docId |-> appAnalysis.document_id, pageNum |-> pageNum]}
    /\ lastOp' = Op("loadPageImage", "pending")
    /\ UNCHANGED <<storeVars, pageVars, inflight, segVars, applyVars, dashVars,
                   selectedFile, uploading, appAnalysis, viewMode, pageTexts, pageImages>>

\* loadPageText(analysis.document_id, pageNum), called in review mode
LoadPageText(pageNum) ==
    /\ appAnalysis # null
    /\ viewMode = "review"
    /\ pageNum \in PagesToLoad
    /\ pageNum \notin DOMAIN pageTexts
    /\ Cardinality(fetching) < MaxFetching
    /\ fetching' = fetching \cup
           {[kind |-> "text", docId |-> appAnalysis.document_id, pageNum |-> pageNum]}
    /\ lastOp' = Op("loadPageText", "pending")
    /\ UNCHANGED <<storeVars, pageVars, inflight, segVars, applyVars, dashVars,
                   selectedFile, uploading, appAnalysis, viewMode, pageTexts, pageImages>>

\* setPageImages(prev => ({...prev, [pageNum]: imageUrl})), and the like for
\* the text: the fetch f was answered
FetchSucceed(f) ==
    /\ f \in fetching
    /\ fetching' = fetching \ {f}
    /\ IF f.kind = "image"
       THEN /\ pageImages' = (f.pageNum :> PageContent(f.docId, f.pageNum)) @@ pageImages
            /\ UNCHANGED pageTexts
       ELSE /\ pageTexts' = (f.pageNum :> PageContent(f.docId, f.pageNum)) @@ pageTexts
            /\ UNCHANGED pageImages
    /\ lastOp' = Op(IF f.kind = "image" THEN "loadPageImage" ELSE "loadPageText", "returned")
    /\ UNCHANGED <<storeVars, pageVars, inflight, segVars, applyVars, dashVars,
                   selectedFile, uploading, appAnalysis, viewMode>>

\* the response was not ok, or the fetch threw
FetchFail(f) ==
    /\ f \in fetching
    /\ fetching' = fetching \ {f}
    /\ lastOp' = Op(IF f.kind = "image" THEN "loadPageImage" ELSE "loadPageText", "failed")
    /\ UNCHANGED <<storeVars, pageVars, inflight, segVars, applyVars, dashVars,
                   selectedFile, uploading, appAnalysis, viewMode, pageTexts, pageImages>>

CacheNext ==
    \/ \E file \in Filenames : HandleFileSelect(file)
    \/ HandleUpload
    \/ \E file \in Filenames : UploadSucceed(file)
    \/ \E file \in Filenames : UploadFail(file)
    \/ \E mode \in {"preview", "review"} : SetViewMode(mode)
    \/ \E pageNum \in Pages : NavigateToPage(pageNum)
    \/ \E pageNum \in Pages : LoadPageImage(pageNum)
    \/ \E pageNum \in Pages : LoadPageText(pageNum)
    \/ \E f \in fetching : FetchSucceed(f)
    \/ \E f \in fetching : FetchFail(f)

CacheSpec == Init /\ [][CacheNext]_vars

\* the cache entries that are not of the document shown
Stale(cache) ==
    {p \in DOMAIN cache : cache[p].document_id # appAnalysis.document_id}

-----------------------------------------------------------------------------
(* The highlighter with up to one detection more on the page shown *)

SkipInit ==
    /\ currentDocument = null
    /\ currentAnalysis = null
    /\ documents = <<>>
    /\ analyses = <<>>
    /\ redactionConfig = StoreConfig
    /\ page = "dashboard"
    /\ documentId = ""
    /\ isAnalyzingRef = FALSE
    /\ isAnalyzing = FALSE
    /\ hasStartedAnalysis = FALSE
    /\ uploadedFiles = {}
    /\ inflight = EmptyBag
    /\ lastOp = Other
    /\ pageText \in Texts
    /\ analysisRedactions \in SeqsUpTo(RedactionItems, MaxRedactions + 1)
    /\ currentPage = 0
    /\ segments = <<>>
    /\ rendered = FALSE
    /\ ApplyIdle
    /\ DashIdle
    /\ CacheIdle

SkipSpec == SkipInit /\ [][SegNext]_vars

\* the places of the text where pattern occurs
Occurrences(text, pattern) ==
    {i \in 0..(Len(text) - Len(pattern)) : Slice(text, i, i + Len(pattern)) = pattern}

\* the forEach's segments and cursor when it comes to its k-th redaction
Before(text, sorted, k) ==
    ForEach(text, SubSeq(sorted, 1, k - 1), 1, [segments |-> <<>>, currentIndex |-> 0])

\* the k-th redaction is skipped: its text is not found at or after the cursor
Skipped(text, sorted, k) ==
    IndexOf(text, sorted[k].text, SearchFrom(Before(text, sorted, k).currentIndex)) < 0

\* the occurrence of pattern at i shares a character with the redacted segment s
Overlaps(i, pattern, s) ==
    /\ s.isRedacted
    /\ i < s.startIndex + Len(s.text)
    /\ s.startIndex < i + Len(pattern)

\* C24: a detection whose text occurs in the page text is left without a
\* redacted segment only if every occurrence of its text overlaps a redacted
\* segment emitted for a detection ordered before it.
C24_SkippedWasConsumed ==
    rendered =>
        LET sorted == sortedRedactions(pageText, currentPageRedactions)
        IN  \A k \in 1..Len(sorted) :
               Skipped(pageText, sorted, k) =>
                  \A i \in Occurrences(pageText, sorted[k].text) :
                     \E j \in 1..Len(Before(pageText, sorted, k).segments) :
                        Overlaps(i, sorted[k].text, Before(pageText, sorted, k).segments[j])

-----------------------------------------------------------------------------
(* The highlighter's segments: their texts, tags and order *)

\* the place in the text of the k-th segment, the segments being laid end
\* to end from the start of the text
RECURSIVE Offset(_, _)
Offset(segs, k) == IF k <= 1 THEN 0 ELSE Offset(segs, k - 1) + Len(segs[k - 1].text)

ExampleText ==
    <<"N", "a", "m", "e", ":", " ", "J", "o", "h", "n", " ", "S", "m", "i", "t", "h", ",", " ", "S", "S", "N", ":", " ", "1", "2", "3", "-", "4", "5", "-", "6", "7", "8", "9">>
ExampleRedactions ==
    <<[indexOf |-> 0, page |-> 0, text |-> <<"J", "o", "h", "n", " ", "S", "m", "i", "t", "h">>],
      [indexOf |-> 1, page |-> 0, text |-> <<"1", "2", "3", "-", "4", "5", "-", "6", "7", "8", "9">>]>>
ExampleSegments ==
    <<[text |-> <<"N", "a", "m", "e", ":", " ">>, isRedacted |-> FALSE],
      [text |-> <<"J", "o", "h", "n", " ", "S", "m", "i", "t", "h">>, isRedacted |-> TRUE, redactionIndex |-> 0, startIndex |-> 6],
      [text |-> <<",", " ", "S", "S", "N", ":", " ">>, isRedacted |-> FALSE],
      [text |-> <<"1", "2", "3", "-", "4", "5", "-", "6", "7", "8", "9">>, isRedacted |-> TRUE, redactionIndex |-> 1, startIndex |-> 23]>>

ExampleRendered == renderTextWithHighlights(ExampleText, ExampleRedactions)

\* C25: every redacted segment has the text of the detection its tag names,
\* on the page shown, and no other segment has that tag; plain segments carry
\* no tag; every segment's text is the text found where the segments before
\* it end, so the segments come in left-to-right order; and the text
\* "Name: John Smith, SSN: 123-45-6789" with detections "John Smith" and
\* "123-45-6789" gives plain "Name: ", redacted d1, plain ", SSN: ", redacted d2.
C25_SegmentsTaggedInOrder ==
    /\ ExampleRendered = ExampleSegments
    /\ rendered =>
          \A k \in 1..Len(segments) :
             LET s == segments[k]
                 at == Offset(segments, k)
             IN  /\ at + Len(s.text) <= Len(pageText)
                 /\ Slice(pageText, at, at + Len(s.text)) = s.text
                 /\ IF s.isRedacted
                    THEN /\ Has(s, "redactionIndex")
                         /\ s.redactionIndex \in 0..(Len(analysisRedactions) - 1)
                         /\ analysisRedactions[s.redactionIndex + 1].text = s.text
                         /\ analysisRedactions[s.redactionIndex + 1].page = currentPage
                         /\ s.startIndex = at
                         /\ \A j \in Redacted \ {k} :
                               segments[j].redactionIndex # s.redactionIndex
                    ELSE ~Has(s, "redactionIndex")

\* two detections of different texts redacted with plain text between them,
\* the second of them not the first of the page's list
C25_Witness ==
    /\ rendered
    /\ Len(segments) = 3
    /\ segments[1].isRedacted /\ ~segments[2].isRedacted /\ segments[3].isRedacted
    /\ Len(segments[1].text) >= 1 /\ Len(segments[3].text) >= 1
    /\ segments[1].text # segments[3].text
    /\ segments[1].redactionIndex > segments[3].redactionIndex

-----------------------------------------------------------------------------
(* startAnalysis normalising what the engine sent *)

\* an optional field: left out, or present with one of the values
Optional(f, values) == {[x \in {} |-> 0]} \cup {f :> v : v \in values}

\* A detection as the engine may send it to the review page: every field
\* that startAnalysis defaults is left out or present, the confidence also
\* as 0
EngineDetections ==
    {id @@ approved @@ reason @@ pageNumber @@ startPos @@ endPos @@ confidence
        @@ [text |-> "SSN"] :
        id \in Optional("id", {"d1"}),
        approved \in Optional("approved", BOOLEAN),
        reason \in Optional("detection_reason", {"SSN pattern"}),
        pageNumber \in Optional("page_number", {2}),
        startPos \in Optional("start_pos", {7}),
        endPos \in Optional("end_pos", {9}),
        confidence \in Optional("confidence", {0, 50})}

FormatNext ==
    \/ \E d \in DocIds : NavigateReview(d)
    \/ \E m \in BOOLEAN : LoadEffect(m)
    \/ \E r \in BagToSet(inflight), now \in Times, seed \in Seeds, m \in BOOLEAN :
          \E result \in EngineResponses(r.docId, {<<d>> : d \in EngineDetections}) :
             AnalyzeSucceed(r, result, now, seed, m)

FormatSpec == HookInit /\ [][FormatNext]_vars

\* the fields startAnalysis defaults, the id apart, with their defaults
Defaults ==
    [approved |-> TRUE, detection_reason |-> "Automatically detected",
     page_number |-> 0, start_pos |-> 0, end_pos |-> 0, confidence |-> 90]

\* C26: in the Analysis startAnalysis makes current, a Detection field the
\* engine's response leaves out has its default, and a field the response
\* carries, a confidence of 0 included, has the value the engine sent.
C26_DefaultsOnlyWhenOmitted ==
    lastOp.op = "startAnalysis" /\ lastOp.outcome = "returned" =>
        \A i \in 1..Len(lastOp.result.detections) :
            LET sent == lastOp.result.detections[i]
                stored == currentAnalysis.detections[i]
            IN  /\ \A f \in DOMAIN Defaults \cup {"id"} :
                      Has(sent, f) => stored[f] = sent[f]
                /\ \A f \in DOMAIN Defaults :
                      ~Has(sent, f) => stored[f] = Defaults[f]
                /\ ~Has(sent, "id") =>
                      stored.id \in {FormatId(sent, i - 1, now) : now \in Times}

-----------------------------------------------------------------------------
(* The current analysis and its stored copy *)

\* the approved field of a detection, "absent" when it carries none
ApprovedOf(d) == IF Has(d, "approved") THEN d.approved ELSE "absent"

\* C27: whenever currentAnalysis is non-null and `analyses` holds an entry
\* under currentAnalysis.id, that entry has the Detections of currentAnalysis:
\* as many, with the same ids and the same approved values in the same order.
C27_StoredCopyAgrees ==
    currentAnalysis # null /\ FindIndex(analyses, IdOf(currentAnalysis)) >= 1 =>
        LET stored == analyses[FindIndex(analyses, IdOf(currentAnalysis))].detections
            shown == currentAnalysis.detections
        IN  /\ Len(stored) = Len(shown)
            /\ \A i \in 1..Len(shown) :
                  /\ IdOf(stored[i]) = IdOf(shown[i])
                  /\ ApprovedOf(stored[i]) = ApprovedOf(shown[i])

-----------------------------------------------------------------------------
(* Review pages opened one after another, analyses completing, and Apply *)

\* A click comes after the page has rendered the state it acts on.
FlowNext ==
    \/ \E d \in DocIds : NavigateReview(d)
    \/ NavigateTo("dashboard")
    \/ Render
    \/ \E m \in BOOLEAN : LoadEffect(m)
    \/ \E r \in BagToSet(inflight), now \in Times, seed \in Seeds, m \in BOOLEAN :
          \E result \in EngineResponses(r.docId, {TwoFound}) :
             AnalyzeSucceed(r, result, now, seed, m)
    \/ \E r \in BagToSet(inflight), m \in BOOLEAN : AnalyzeFail(r, m)
    \/ isAnalyzing = isAnalyzingRef /\ \E now \in Times, seed \in Seeds :
          HandleApplyRedactions(now, seed)
    \/ \E r \in BagToSet(applying) : ApplySucceed(r)
    \/ \E r \in BagToSet(applying) : ApplyFail(r)

FlowSpec == HookInit /\ [][FlowNext]_vars

\* C28: when handleApplyRedactions sends its request, the Analysis whose
\* Detections it sends is an Analysis of the document the request names:
\* currentAnalysis.document_id = currentDocument.id.
C28_AppliedToOwnDocument ==
    [][lastOp' = Op("handleApplyRedactions", "pending")
          => currentAnalysis.document_id = currentDocument.id]_vars

====
